---------------------------- MODULE Spec2Model ----------------------------
(***************************************************************************)
(* Model of the customer-support triage core:                              *)
(*   classifier.py      classify, ClassificationResult.route               *)
(*   support_store.py   init_db, create_ticket, get_ticket_status          *)
(*   crew_scaffold.py   handle_message and the task builders               *)
(*                                                                         *)
(* Text is a sequence of tokens.  Text that comes from outside (messages,  *)
(* trace ids, the label and rationale fields of the gateway's answer,      *)
(* ticket numbers) is a sequence of one-character strings.  A string       *)
(* literal of the source is a sequence of phrase tokens, cut so that the   *)
(* words a property reads are tokens of their own.  Concatenation is \o    *)
(* and "contains" is "has as a contiguous subsequence".                    *)
(***************************************************************************)
EXTENDS Integers, Sequences, FiniteSets, TLC

VARIABLES
  c_in,        \* SpecClassify: the arguments of one classify call
  c_out,       \* SpecClassify: what the call did (pending / return / raise)
  d_in,        \* SpecDispatch: a ClassificationResult
  d_out,       \* SpecDispatch: its route and the branch handle_message takes
  table,       \* support_tickets exists (CREATE TABLE IF NOT EXISTS has run)
  rows,        \* the rows of support_tickets
  seq,         \* sqlite_sequence of support_tickets (AUTOINCREMENT)
  api,         \* SpecStore: the last store call and what it returned
  written,     \* history: ticket number -> the last successful create for it
  calls,       \* number of calls made so far (bounded)
  pc,          \* Spec: position inside handle_message
  req,         \* Spec: the arguments of the running handle_message
  gw,          \* Spec: what the gateway answers to this request's classify
  loc,         \* Spec: the locals of handle_message
  steps,       \* history: the calls handle_message has made, in order
  events       \* history: the negative-feedback events that got a ticket

vars == <<c_in, c_out, d_in, d_out, table, rows, seq, api, written, calls,
          pc, req, gw, loc, steps, events>>

(***************************************************************************)
(* Optional values (Python's None / a value) and text helpers.             *)
(***************************************************************************)
Nothing == [some |-> FALSE]

Just(x) == [some |-> TRUE, val |-> x]

\* Python truthiness of an Optional[str]: None and "" are both falsy.
TruthyOpt(o) == o.some /\ o.val # <<>>

Contains(text, part) ==
  \E i \in 0..(Len(text) - Len(part)) :
     \A j \in 1..Len(part) : text[i + j] = part[j]

EndsWith(text, part) ==
  /\ Len(part) <= Len(text)
  /\ \A j \in 1..Len(part) : text[Len(text) - Len(part) + j] = part[j]

Digits == {"0", "1", "2", "3", "4", "5", "6", "7", "8", "9"}

DigitChar == <<"0", "1", "2", "3", "4", "5", "6", "7", "8", "9">>

UpperChars == <<"A", "B", "C", "D", "E", "F", "G", "H", "I", "J", "K", "L", "M",
                "N", "O", "P", "Q", "R", "S", "T", "U", "V", "W", "X", "Y", "Z">>

LowerChars == <<"a", "b", "c", "d", "e", "f", "g", "h", "i", "j", "k", "l", "m",
                "n", "o", "p", "q", "r", "s", "t", "u", "v", "w", "x", "y", "z">>

\* The characters str.strip() removes and \s matches.
Whitespace == {" ", "\t", "\n", "\r"}

\* Decimal formatting of a natural number: f"{n}".
RECURSIVE format_int(_)
format_int(n) ==
  IF n < 10 THEN <<DigitChar[n + 1]>>
  ELSE format_int(n \div 10) \o <<DigitChar[(n % 10) + 1]>>

\* str.strip(): leading and trailing whitespace removed.
RECURSIVE lstrip(_)
lstrip(s) ==
  IF s # <<>> /\ Head(s) \in Whitespace THEN lstrip(Tail(s)) ELSE s

RECURSIVE rstrip(_)
rstrip(s) ==
  IF s # <<>> /\ s[Len(s)] \in Whitespace
  THEN rstrip(SubSeq(s, 1, Len(s) - 1)) ELSE s

strip(s) == rstrip(lstrip(s))

\* str.lower(), character by character.
lower_char(c) ==
  IF \E i \in 1..26 : UpperChars[i] = c
  THEN LowerChars[CHOOSE i \in 1..26 : UpperChars[i] = c]
  ELSE c

lower(s) == [i \in 1..Len(s) |-> lower_char(s[i])]

\* str.replace(" ", "_"): every space character becomes one underscore.
replace_space(s) == [i \in 1..Len(s) |-> IF s[i] = " " THEN "_" ELSE s[i]]

(***************************************************************************)
(* The gateway's answer to the classification request, and JSON.           *)
(*   [kind |-> "error"]                 create(...) raised                 *)
(*   [kind |-> "content", content |-> c] message.content is c:             *)
(*       Nothing (None) or Just(d), d the text returned:                   *)
(*       [form |-> "empty"]             the empty string                   *)
(*       [form |-> "invalid"]           non-empty text json.loads rejects  *)
(*       [form |-> "json", value |-> v] text json.loads parses to v        *)
(* JSON values: [t |-> "object", fields |-> f], [t |-> "str", s |-> text], *)
(*   [t |-> "num", n |-> k], [t |-> "list", items |-> seq], [t |-> "null"] *)
(* Of an object only the two keys classify reads are kept: f maps "label"  *)
(* and "rationale" to Nothing (key absent) or Just(value).                 *)
(***************************************************************************)
JStr(s) == [t |-> "str", s |-> s]

JNum(n) == [t |-> "num", n |-> n]

JList(xs) == [t |-> "list", items |-> xs]

JNull == [t |-> "null"]

JObject(l, r) == [t |-> "object", fields |-> [label |-> l, rationale |-> r]]

EmptyObject == JObject(Nothing, Nothing)

\* dict.get(key, default)
dict_get(obj, key, default) ==
  IF obj.fields[key].some THEN obj.fields[key].val ELSE default

\* str(x) of a parsed JSON value.
py_str(v) ==
  CASE v.t = "str"  -> v.s
    [] v.t = "num"  -> format_int(v.n)
    [] v.t = "null" -> <<"N", "o", "n", "e">>
    [] v.t = "list" -> <<"[">> \o v.items \o <<"]">>
    [] OTHER        -> <<"{", "}">>

\* Python truthiness of a parsed JSON value.
truthy(v) ==
  CASE v.t = "str"  -> v.s # <<>>
    [] v.t = "num"  -> v.n # 0
    [] v.t = "null" -> FALSE
    [] v.t = "list" -> v.items # <<>>
    [] OTHER        -> v.fields.label.some \/ v.fields.rationale.some

\* The ClassificationLabel enumeration.
POSITIVE_FEEDBACK == "positive_feedback"

NEGATIVE_FEEDBACK == "negative_feedback"

QUERY == "query"

ClassificationLabel == {POSITIVE_FEEDBACK, NEGATIVE_FEEDBACK, QUERY}

Returned(label, rationale) ==
  [kind |-> "return", label |-> label, rationale |-> rationale]

Raised(exc) == [kind |-> "raise", exc |-> exc]

\* The synonym tables of the normalisation.
W_pos == <<"p", "o", "s">>

W_positive == <<"p", "o", "s", "i", "t", "i", "v", "e">>

W_neg == <<"n", "e", "g">>

W_negative == <<"n", "e", "g", "a", "t", "i", "v", "e">>

W_feedback == <<"f", "e", "e", "d", "b", "a", "c", "k">>

W_query == <<"q", "u", "e", "r", "y">>

PositiveSynonyms == {W_positive, W_positive \o <<"_">> \o W_feedback, W_pos}

NegativeSynonyms == {W_negative, W_negative \o <<"_">> \o W_feedback, W_neg}

\* label_value of classify: str(...).strip().lower().replace(" ", "_")
LabelValueCaseKept(v) == replace_space(strip(py_str(v)))

label_value(v) == replace_space(lower(strip(py_str(v))))

\* The if / elif / else over label_value.
normalize_label(lv) ==
  IF lv \in PositiveSynonyms THEN POSITIVE_FEEDBACK
  ELSE IF lv \in NegativeSynonyms THEN NEGATIVE_FEEDBACK
  ELSE QUERY

\* The literals of classify.
UNAVAILABLE == <<"Classifier ", "unavailable", "; routing to query handler.">>

NO_RATIONALE == <<"No rationale provided by model.">>

TRACE_PREFIX == <<" trace_id=">>

\* raw = completion.choices[0].message.content or "{}"
raw_content(content) ==
  IF ~content.some \/ content.val.form = "empty"
  THEN [form |-> "json", value |-> EmptyObject]
  ELSE content.val

\* The try block: the gateway call, then json.loads(raw).
\* [ok |-> FALSE] when anything in it raised.
FallbackSkipped(g) ==
  IF g.kind = "error" THEN [ok |-> TRUE, parsed |-> EmptyObject]
  ELSE LET raw == raw_content(g.content) IN
       IF raw.form = "json" THEN [ok |-> TRUE, parsed |-> raw.value]
       ELSE [ok |-> TRUE, parsed |-> EmptyObject]

try_gateway(g) ==
  IF g.kind = "error" THEN [ok |-> FALSE]
  ELSE LET raw == raw_content(g.content) IN
       IF raw.form = "json" THEN [ok |-> TRUE, parsed |-> raw.value]
       ELSE [ok |-> FALSE]

\* rationale += f" trace_id={trace_id}" on the value the rationale holds.
fallback_rationale(trace_id) ==
  IF TruthyOpt(trace_id) THEN UNAVAILABLE \o TRACE_PREFIX \o trace_id.val
  ELSE UNAVAILABLE

\* Lines 82-95: the code after the try block.
after_try(parsed, trace_id) ==
  IF parsed.t # "object" THEN Raised("AttributeError")
  ELSE
    LET label == normalize_label(label_value(dict_get(parsed, "label", JStr(<<>>))))
        got   == dict_get(parsed, "rationale", JNull)
        rationale == IF truthy(got) THEN got ELSE JStr(NO_RATIONALE)
    IN  IF ~TruthyOpt(trace_id) THEN Returned(label, rationale)
        ELSE CASE rationale.t = "str" ->
                    Returned(label, JStr(rationale.s \o TRACE_PREFIX \o trace_id.val))
               [] rationale.t = "list" ->
                    Returned(label, JList(rationale.items \o TRACE_PREFIX \o trace_id.val))
               [] OTHER -> Raised("TypeError")

\* classify(message, trace_id=..., client=<a client answering g>)
classify(message, trace_id, g) ==
  IF strip(message) = <<>> THEN Raised("ValueError")
  ELSE LET att == try_gateway(g) IN
       IF ~att.ok THEN Returned(QUERY, JStr(fallback_rationale(trace_id)))
       ELSE after_try(att.parsed, trace_id)


\* ClassificationResult.route
route(label) ==
  IF label = POSITIVE_FEEDBACK THEN "feedback_positive_handler"
  ELSE IF label = NEGATIVE_FEEDBACK THEN "feedback_negative_handler"
  ELSE "query_handler"

\* The if / elif / else of handle_message over classification.label.
DispatchPositiveToElse(label) ==
  IF label = QUERY THEN "query" ELSE "negative"

dispatch(label) ==
  IF label = QUERY THEN "query"
  ELSE IF label = POSITIVE_FEEDBACK THEN "positive"
  ELSE "negative"

(***************************************************************************)
(* support_store.py: the table support_tickets                             *)
(*   (id INTEGER PRIMARY KEY AUTOINCREMENT, ticket_number TEXT UNIQUE,     *)
(*    status TEXT, message TEXT)                                           *)
(* as a set of rows, with AUTOINCREMENT's sqlite_sequence.  sqlite3        *)
(* errors other than the missing table are not modelled.                   *)
(***************************************************************************)
Row(id, n, s, m) == [id |-> id, ticket_number |-> n, status |-> s, message |-> m]

\* INSERT OR REPLACE INTO support_tickets (ticket_number, status, message):
\* the row that holds the UNIQUE ticket_number is deleted, the new row gets
\* the next AUTOINCREMENT id.
InsertKeepingOld(rs, sq, n, s, m) ==
  [rows |-> rs \cup {Row(sq + 1, n, s, m)}, seq |-> sq + 1]

insert_or_replace(rs, sq, n, s, m) ==
  [rows |-> {r \in rs : r.ticket_number # n} \cup {Row(sq + 1, n, s, m)},
   seq  |-> sq + 1]

\* SELECT status ... WHERE ticket_number = ?, fetchone(), row[0] if row else None
select_status(rs, n) ==
  LET hit == {r \in rs : r.ticket_number = n} IN
  IF hit = {} THEN Nothing
  ELSE Just((CHOOSE r \in hit : \A q \in hit : r.id <= q.id).status)

\* init_db(): mkdir, CREATE TABLE IF NOT EXISTS.  The rows are kept.
init_db(tbl, rs) == [table |-> TRUE, rows |-> rs]

\* create_ticket(ticket_number, message, status): raises sqlite3's
\* OperationalError when the table does not exist.
CreateTicketNotCommitted(tbl, rs, sq, n, m, s) ==
  [raised |-> ~tbl, rows |-> rs, seq |-> sq]

create_ticket(tbl, rs, sq, n, m, s) ==
  IF ~tbl THEN [raised |-> TRUE, rows |-> rs, seq |-> sq]
  ELSE LET w == insert_or_replace(rs, sq, n, s, m) IN
       [raised |-> FALSE, rows |-> w.rows, seq |-> w.seq]

\* get_ticket_status(ticket_number)
get_ticket_status(tbl, rs, n) ==
  IF ~tbl THEN [raised |-> TRUE, value |-> Nothing]
  ELSE [raised |-> FALSE, value |-> select_status(rs, n)]

\* The status texts a ticket is created with.
UNRESOLVED == <<"Unresolved">>

RESOLVED == <<"Resolved">>

Statuses == {UNRESOLVED, RESOLVED, <<>>}

(***************************************************************************)
(* Bounds and input sets.                                                  *)
(***************************************************************************)
MaxCreates == 3        \* SpecStore: create_ticket calls in one run

MaxRequests == 2       \* Spec: handle_message calls in one run

MaxSep == 2            \* SpecClassify: separators between two words of a label

\* _generate_ticket_number: secrets.randbelow(900000) + 100000
TicketBase == 100000

TicketSpan == 900000

\* The draws of randbelow the model follows (offsets below TicketSpan).
Draws == {0, 1, TicketSpan - 1}

T_000000 == <<"0", "0", "0", "0", "0", "0">>

T_123456 == <<"1", "2", "3", "4", "5", "6">>

T_100000 == format_int(TicketBase)

T_100001 == format_int(TicketBase + 1)

StoreNumbers == {T_000000, T_123456}

StoreMessages == {<<"m">>, <<"m", "2">>}

TraceIds == {Nothing, Just(<<>>), Just(<<"T", "7">>)}


\* Every ticket number the model generates, stores or reads in a message.
TicketUniverse ==
  StoreNumbers \cup {format_int(TicketBase + d) : d \in Draws} \cup {T_100001}

NoWrites == [n \in TicketUniverse |-> Nothing]

(***************************************************************************)
(* Inputs of classify.                                                     *)
(***************************************************************************)
upper_char(c) ==
  IF \E i \in 1..26 : LowerChars[i] = c
  THEN UpperChars[CHOOSE i \in 1..26 : LowerChars[i] = c]
  ELSE c

upper(s) == [i \in 1..Len(s) |-> upper_char(s[i])]

capitalize(s) == IF s = <<>> THEN s ELSE <<upper_char(Head(s))>> \o Tail(s)

Cased(w) == {w, upper(w), capitalize(w)}

RECURSIVE SeqsUpTo(_, _)
SeqsUpTo(S, n) ==
  IF n = 0 THEN {<<>>}
  ELSE LET shorter == SeqsUpTo(S, n - 1) IN
       shorter \cup {<<x>> \o t : x \in S, t \in {u \in shorter : Len(u) = n - 1}}

Separators == SeqsUpTo({" ", "_", "\t"}, MaxSep) \ {<<>>}

LabelWords == {W_pos, W_positive, W_neg, W_negative, W_query, <<"o", "k">>, <<>>}

RawLabels ==
  UNION {{l \o c \o r : c \in Cased(w), l \in {<<>>, <<" ">>}, r \in {<<>>, <<"\t">>}}
         : w \in LabelWords}
  \cup UNION {{c \o sep \o f : c \in Cased(w), sep \in Separators, f \in Cased(W_feedback)}
         : w \in {W_positive, W_negative}}

LabelFields ==
  {Nothing, Just(JNull), Just(JNum(5)), Just(JList(<<>>))}
  \cup {Just(JStr(raw)) : raw \in RawLabels}

RationaleFields ==
  {Nothing, Just(JNull), Just(JStr(<<>>)), Just(JStr(<<"w", "h", "y">>)),
   Just(JNum(0)), Just(JNum(5)), Just(JList(<<>>)), Just(JList(<<"x">>))}

GwError == [kind |-> "error"]

GwContent(c) == [kind |-> "content", content |-> c]

GwJson(v) == GwContent(Just([form |-> "json", value |-> v]))

GatewayOutcomes ==
  {GwError, GwContent(Nothing), GwContent(Just([form |-> "empty"])),
   GwContent(Just([form |-> "invalid"]))}
  \cup {GwJson(v) : v \in {JNull, JNum(5), JList(<<>>), JStr(W_pos)}}
  \cup {GwJson(JObject(l, r)) : l \in LabelFields, r \in RationaleFields}

ClassifyMessages == {<<>>, <<" ", "\n">>, <<"h", "i">>, <<" ", "o", "k", " ">>}

Pending == [kind |-> "pending"]

(***************************************************************************)
(* Variables a specification does not use stay at these values.            *)
(***************************************************************************)
IdleClassify == c_in = Nothing /\ c_out = Pending

IdleDispatch == d_in = Nothing /\ d_out = Nothing

IdleStoreApi == api = [op |-> "none"]

IdleHandle ==
  /\ pc = "idle" /\ req = Nothing /\ gw = Nothing /\ loc = Nothing
  /\ steps = <<>> /\ events = <<>>

EmptyStore ==
  /\ table = FALSE /\ rows = {} /\ seq = 0 /\ calls = 0
  /\ written = NoWrites

RowsOf(n) == {r \in rows : r.ticket_number = n}

classifyVars == <<c_in, c_out>>

dispatchVars == <<d_in, d_out>>

storeVars == <<table, rows, seq, written>>

handleVars == <<pc, req, gw, loc, steps, events>>

(***************************************************************************)
(* SpecClassify: one call of classify on every input.                      *)
(***************************************************************************)
InitClassify ==
  /\ c_in \in {Just([message |-> m, trace_id |-> t, g |-> g]) :
                 m \in ClassifyMessages, t \in TraceIds, g \in GatewayOutcomes}
  /\ c_out = Pending
  /\ IdleDispatch /\ IdleStoreApi /\ IdleHandle /\ EmptyStore

CallClassify ==
  /\ c_out = Pending
  /\ c_out' = classify(c_in.val.message, c_in.val.trace_id, c_in.val.g)
  /\ UNCHANGED <<c_in, dispatchVars, storeVars, api, calls, handleVars>>

NextClassify == CallClassify

SpecClassify == InitClassify /\ [][NextClassify]_vars


(***************************************************************************)
(* Claims about classify, checked under SpecClassify.                      *)
(***************************************************************************)
ClassifyDone == c_out # Pending

NonBlankMessage == \E i \in 1..Len(c_in.val.message) : c_in.val.message[i] \notin Whitespace

GwIsText(form) ==
  /\ c_in.val.g.kind = "content"
  /\ c_in.val.g.content.some
  /\ c_in.val.g.content.val.form = form

GwIsObject == GwIsText("json") /\ c_in.val.g.content.val.value.t = "object"

\* C1: for every message that is non-empty after trimming and every gateway
\* outcome, classify returns a result whose label is one of the three labels;
\* it never raises.
C1_AlwaysALabel ==
  (ClassifyDone /\ NonBlankMessage)
    => (c_out.kind = "return" /\ c_out.label \in ClassificationLabel)

FallbackResult(trace_id) ==
  /\ c_out.kind = "return"
  /\ c_out.label = QUERY
  /\ c_out.rationale.t = "str"
  /\ Contains(c_out.rationale.s, <<"unavailable">>)
  /\ trace_id.some => EndsWith(c_out.rationale.s, trace_id.val)

\* C2 as claimed: when the gateway call fails or returns text that is not
\* valid JSON (the empty text included), classify returns Query with a
\* rationale containing "unavailable" that ends with the supplied trace id.
C2_FallbackOnAnyNonJsonText ==
  (ClassifyDone /\ NonBlankMessage
     /\ (c_in.val.g = GwError \/ GwIsText("invalid") \/ GwIsText("empty")))
    => FallbackResult(c_in.val.trace_id)

\* C2 as amended: when the gateway call fails or returns non-empty text that
\* is not valid JSON, classify returns Query with a rationale containing
\* "unavailable" that ends with the supplied trace id; an empty or absent
\* content is read as "{}" and gives Query with the "No rationale" text; in
\* all these cases the label is the one returned when no trace id is given.
C2_FallbackOnFailureOrInvalidText ==
  /\ (ClassifyDone /\ NonBlankMessage /\ (c_in.val.g = GwError \/ GwIsText("invalid")))
       => FallbackResult(c_in.val.trace_id)
  /\ (ClassifyDone /\ NonBlankMessage
        /\ (GwIsText("empty") \/ c_in.val.g = GwContent(Nothing)))
       => /\ c_out.kind = "return"
          /\ c_out.label = QUERY
          /\ c_out.rationale.t = "str"
          /\ SubSeq(c_out.rationale.s, 1, 1) = NO_RATIONALE
          /\ c_in.val.trace_id.some => EndsWith(c_out.rationale.s, c_in.val.trace_id.val)
  /\ (ClassifyDone /\ NonBlankMessage
        /\ (c_in.val.g = GwError \/ GwIsText("invalid") \/ GwIsText("empty")
              \/ c_in.val.g = GwContent(Nothing)))
       => c_out.label = classify(c_in.val.message, Nothing, c_in.val.g).label

\* C2 witness: invalid text and a trace id; the fallback rationale ends with it.
C2_Witness ==
  /\ GwIsText("invalid")
  /\ c_in.val.trace_id = Just(<<"T", "7">>)
  /\ c_out.kind = "return"
  /\ c_out.label = QUERY
  /\ c_out.rationale = JStr(UNAVAILABLE \o TRACE_PREFIX \o <<"T", "7">>)

\* The label field of the object the gateway returned (Nothing: key absent).
LabelField == c_in.val.g.content.val.value.fields.label

\* The normalisation the amended C8 states, written from the claim: trim,
\* then map each character (upper case to lower case, a space to "_").
RECURSIVE TrimFront(_)
TrimFront(s) ==
  IF Len(s) = 0 THEN s
  ELSE IF s[1] \in Whitespace THEN TrimFront(SubSeq(s, 2, Len(s))) ELSE s

Reverse(s) == [i \in 1..Len(s) |-> s[Len(s) + 1 - i]]

Trimmed(s) == Reverse(TrimFront(Reverse(TrimFront(s))))

RECURSIVE EachSpaceToUnderscore(_)
EachSpaceToUnderscore(s) ==
  IF s = <<>> THEN <<>>
  ELSE <<IF Head(s) = " " THEN "_" ELSE lower_char(Head(s))>>
         \o EachSpaceToUnderscore(Tail(s))

\* The normalisation C8 claims: every run of internal whitespace becomes one "_".
RECURSIVE RunsToUnderscore(_)
RunsToUnderscore(s) ==
  IF s = <<>> THEN <<>>
  ELSE IF Head(s) \in Whitespace
       THEN <<"_">> \o RunsToUnderscore(TrimFront(s))
       ELSE <<lower_char(Head(s))>> \o RunsToUnderscore(Tail(s))

LabelOfKey(k) ==
  CASE k \in {W_positive, W_pos, W_positive \o <<"_">> \o W_feedback} -> POSITIVE_FEEDBACK
    [] k \in {W_negative, W_neg, W_negative \o <<"_">> \o W_feedback} -> NEGATIVE_FEEDBACK
    [] OTHER -> QUERY

\* C8 as claimed: the raw label is lower-cased and every run of internal
\* whitespace collapsed to one underscore before matching the synonym table;
\* anything else, a missing or non-string field included, maps to Query.
C8_RunsCollapsed ==
  (ClassifyDone /\ GwIsObject /\ c_out.kind = "return")
    => c_out.label =
         IF LabelField.some /\ LabelField.val.t = "str"
         THEN LabelOfKey(RunsToUnderscore(Trimmed(LabelField.val.s)))
         ELSE QUERY

\* C8 as amended: the raw label is trimmed, lower-cased and each space
\* character (not a tab, and not a run as a whole) replaced by one underscore
\* before matching; "positive", "pos", "positive_feedback" in any case map to
\* PositiveFeedback, "negative", "neg", "negative_feedback" to
\* NegativeFeedback, and every other value of the label field of a JSON
\* object, an empty, missing or non-string one included, maps to Query.
C8_EachSpaceReplaced ==
  (ClassifyDone /\ GwIsObject /\ c_out.kind = "return")
    => c_out.label =
         IF LabelField.some /\ LabelField.val.t = "str"
         THEN LabelOfKey(EachSpaceToUnderscore(Trimmed(LabelField.val.s)))
         ELSE QUERY

\* C8 witness: the raw label " POSITIVE feedback" gave PositiveFeedback.
C8_Witness ==
  /\ ClassifyDone /\ GwIsObject /\ c_out.kind = "return"
  /\ LabelField = Just(JStr(upper(W_positive) \o <<" ">> \o W_feedback))
  /\ c_out.label = POSITIVE_FEEDBACK


(***************************************************************************)
(* SpecStore: the store's three functions called in any order.             *)
(***************************************************************************)
InitStore ==
  /\ EmptyStore /\ IdleStoreApi
  /\ IdleClassify /\ IdleDispatch /\ IdleHandle

ApiInitDb ==
  /\ LET r == init_db(table, rows) IN table' = r.table /\ rows' = r.rows
  /\ api' = [op |-> "init_db", raised |-> FALSE]
  /\ UNCHANGED <<seq, written, calls, classifyVars, dispatchVars, handleVars>>

ApiCreateTicket(n, m, s) ==
  /\ seq < MaxCreates
  /\ LET r == create_ticket(table, rows, seq, n, m, s) IN
       /\ rows' = r.rows
       /\ seq' = r.seq
       /\ api' = [op |-> "create_ticket", raised |-> r.raised]
       /\ written' = IF r.raised THEN written
                     ELSE [written EXCEPT ![n] = Just([status |-> s, message |-> m])]
  /\ UNCHANGED <<table, calls, classifyVars, dispatchVars, handleVars>>

ApiGetTicketStatus(n) ==
  /\ LET r == get_ticket_status(table, rows, n) IN
       api' = [op |-> "get_ticket_status", n |-> n, raised |-> r.raised,
               value |-> r.value]
  /\ UNCHANGED <<storeVars, calls, classifyVars, dispatchVars, handleVars>>

NextStore ==
  \/ ApiInitDb
  \/ \E n \in StoreNumbers, m \in StoreMessages, s \in Statuses : ApiCreateTicket(n, m, s)
  \/ \E n \in StoreNumbers : ApiGetTicketStatus(n)

SpecStore == InitStore /\ [][NextStore]_vars

\* C5: the store holds at most one record per ticket number; the record of n
\* is the status and message of the most recent create_ticket for n, and
\* there is none if n was never created (so a create for n changed no other
\* number's record, and init_db and get_ticket_status changed none);
\* get_ticket_status(n) returns that status, or None without raising.  The
\* store is the table init_db sets up: until init_db has run, create_ticket
\* and get_ticket_status raise and nothing is stored.
C5_LastWriteWins ==
  /\ \A n \in TicketUniverse :
       /\ Cardinality(RowsOf(n)) <= 1
       /\ written[n].some =>
            \E r \in RowsOf(n) : /\ r.status = written[n].val.status
                                 /\ r.message = written[n].val.message
       /\ ~written[n].some => RowsOf(n) = {}
  /\ \A r \in rows : r.ticket_number \in TicketUniverse
  /\ api.op = "get_ticket_status" =>
       /\ api.raised <=> ~table
       /\ ~api.raised =>
            api.value = IF written[api.n].some
                        THEN Just(written[api.n].val.status) ELSE Nothing
  /\ (~table) => (rows = {} /\ seq = 0)

\* C5 witness: create("123456", "m", "Unresolved"), create("123456", "m2",
\* "Resolved"), then get_ticket_status("123456") returned "Resolved".
C5_Witness ==
  /\ api.op = "get_ticket_status" /\ api.n = T_123456
  /\ api.value = Just(RESOLVED)
  /\ seq = 2
  /\ \E r \in rows : r.id = 2 /\ r.ticket_number = T_123456 /\ r.message = <<"m", "2">>

(***************************************************************************)
(* SpecDispatch: ClassificationResult.route and the branch handle_message  *)
(* takes, on a ClassificationResult holding any label value (the dataclass *)
(* does not validate its fields).                                          *)
(***************************************************************************)
LabelDomain == ClassificationLabel \cup {"escalation", ""}

DispatchRationales ==
  {Nothing, Just(<<>>), Just(UNAVAILABLE), Just(NO_RATIONALE),
   Just(<<"w", "h", "y">>), Just(NO_RATIONALE \o TRACE_PREFIX \o <<"T", "7">>)}

InitDispatch ==
  /\ d_in \in {Just([label |-> l, rationale |-> r]) :
                 l \in LabelDomain, r \in DispatchRationales}
  /\ d_out = [route |-> Nothing, branch |-> Nothing]
  /\ IdleClassify /\ IdleStoreApi /\ IdleHandle /\ EmptyStore

ReadRoute ==
  /\ ~d_out.route.some
  /\ d_out' = [d_out EXCEPT !.route = Just(route(d_in.val.label))]
  /\ UNCHANGED <<d_in, classifyVars, storeVars, api, calls, handleVars>>

TakeBranch ==
  /\ ~d_out.branch.some
  /\ d_out' = [d_out EXCEPT !.branch = Just(dispatch(d_in.val.label))]
  /\ UNCHANGED <<d_in, classifyVars, storeVars, api, calls, handleVars>>

NextDispatch == ReadRoute \/ TakeBranch

SpecDispatch == InitDispatch /\ [][NextDispatch]_vars

HandlerOfBranch(b) ==
  CASE b = "query"    -> "query_handler"
    [] b = "positive" -> "feedback_positive_handler"
    [] b = "negative" -> "feedback_negative_handler"

_generate_ticket_number(d) == format_int(d + TicketBase)

\* \d{6} of the pattern.
TicketDigits == 6

\* \w of the pattern: letters, digits and the underscore.
IsWordChar(c) ==
  \/ c \in Digits
  \/ c = "_"
  \/ \E i \in 1..26 : c = LowerChars[i] \/ c = UpperChars[i]

\* re.search(r"\b(\d{6})\b", text) matches at i.
MatchAt(text, i) ==
  /\ i + TicketDigits - 1 <= Len(text)
  /\ \A k \in i..(i + TicketDigits - 1) : text[k] \in Digits
  /\ i = 1 \/ ~IsWordChar(text[i - 1])
  /\ i + TicketDigits - 1 = Len(text) \/ ~IsWordChar(text[i + TicketDigits])

\* _extract_ticket_number(text): the leftmost match, or None.
_extract_ticket_number(text) ==
  LET at == {i \in 1..Len(text) : MatchAt(text, i)} IN
  IF at = {} THEN Nothing
  ELSE LET first == CHOOSE i \in at : \A j \in at : i <= j IN
       Just(SubSeq(text, first, first + TicketDigits - 1))

CUSTOMER_MESSAGE == <<"Customer message: ">>

NEWLINE == <<"\n">>

KEEP_SHORT == <<"Keep it to 1-2 sentences. ", "Include the trace_id if provided.">>

Task(agent, description, expected_output, trace_id) ==
  [agent |-> agent, description |-> description,
   expected_output |-> expected_output, metadata |-> [trace_id |-> trace_id]]

\* _positive_feedback_task(agent, message, trace_id)
_positive_feedback_task(message, trace_id) ==
  Task("Feedback Handler (positive)",
       CUSTOMER_MESSAGE \o message \o NEWLINE
         \o <<"Respond with format: Thank you for your kind words, [CustomerName]! We are delighted to assist you. ",
              "If no name is provided, omit the name gracefully.\n">>
         \o KEEP_SHORT,
       <<"A concise, warm thank-you aligned to the provided format.">>,
       trace_id)

\* _negative_feedback_task(agent, message, trace_id, ticket_number)
_negative_feedback_task(message, trace_id, ticket_number) ==
  Task("Feedback Handler (negative)",
       CUSTOMER_MESSAGE \o message \o NEWLINE
         \o <<"Ticket number: ">> \o ticket_number \o NEWLINE
         \o <<"Respond with empathy, apologize, and include the ticket number.\n",
              "Format guidance: We apologize for the inconvenience. A new ticket #[TicketNumber] has been generated, and our team will follow up shortly.\n">>
         \o KEEP_SHORT,
       <<"A concise, empathetic response that includes the ticket number.">>,
       trace_id)

\* status_text of _query_task: `ticket_number and ticket_status` is Python
\* truthiness, so None and "" both count as no status.
status_text(ticket_number, ticket_status) ==
  IF TruthyOpt(ticket_number) /\ TruthyOpt(ticket_status)
  THEN <<"Ticket ">> \o ticket_number.val \o <<" status: ">> \o ticket_status.val
  ELSE IF TruthyOpt(ticket_number)
       THEN <<"Ticket ">> \o ticket_number.val \o <<" not found.">>
       ELSE <<"No ticket number detected.">>

\* _query_task(agent, message, trace_id, ticket_number, ticket_status)
_query_task(message, trace_id, ticket_number, ticket_status) ==
  Task("Query Handler",
       CUSTOMER_MESSAGE \o message \o NEWLINE
         \o status_text(ticket_number, ticket_status) \o NEWLINE
         \o <<"If ticket status is known, return it. If not found, state that. ",
              "If no ticket number is present, ask politely for one. ">>
         \o KEEP_SHORT,
       <<"A concise status response to the customer's query.">>,
       trace_id)

\* What the responder is sent for a task: its description and expected
\* output.  kickoff's inputs (message, trace_id, classification) fill
\* {name} placeholders only, and the builders' texts hold none.
instructions(task) == task.description \o NEWLINE \o task.expected_output

(***************************************************************************)
(* Spec: handle_message, called MaxRequests times one after the other (the *)
(* loop of __main__), on a database an earlier run may have left behind.   *)
(***************************************************************************)
M_blank == <<" ">>

M_thanks == <<"h", "i">>

M_status == <<"?", " ">> \o T_100000

M_second == <<"1", "2", "3", "4", "5", " ">> \o T_100001 \o <<".">>

M_seven == T_100000 \o <<"0">>

M_glued == <<"x">> \o T_100000

HandleMessages == {M_blank, M_thanks, M_status, M_second, M_seven, M_glued}

HandleTraceIds == {Nothing, Just(<<"T", "7">>)}

HandleGateway ==
  {GwError, GwJson(JNull),
   GwJson(JObject(Just(JStr(W_pos)), Nothing)),
   GwJson(JObject(Just(JStr(W_negative)), Just(JStr(<<"w", "h", "y">>)))),
   GwJson(JObject(Just(JStr(W_query)), Nothing))}

NoLocals ==
  [classification |-> Nothing, ticket_number |-> Nothing,
   ticket_status |-> Nothing, task |-> Nothing, reply |-> Nothing,
   exc |-> Nothing, rows0 |-> {}]

\* The database at the start: none, an empty table, or one ticket.
Init ==
  /\ IdleClassify /\ IdleDispatch /\ IdleStoreApi
  /\ pc = "idle" /\ req = Nothing /\ gw = Nothing /\ loc = NoLocals
  /\ steps = <<>> /\ events = <<>> /\ calls = 0
  /\ \/ EmptyStore
     \/ /\ table = TRUE /\ rows = {} /\ seq = 0 /\ written = NoWrites
     \/ \E s \in Statuses :
          LET w == create_ticket(TRUE, {}, 0, T_100000, <<"m">>, s) IN
          /\ table = TRUE /\ rows = w.rows /\ seq = w.seq
          /\ written = [NoWrites EXCEPT ![T_100000] =
                          Just([status |-> s, message |-> <<"m">>])]

Call(m, t, g) ==
  /\ pc = "idle" /\ calls < MaxRequests
  /\ calls' = calls + 1
  /\ req' = Just([message |-> m, trace_id |-> t])
  /\ gw' = Just(g)
  /\ loc' = [NoLocals EXCEPT !.rows0 = rows]
  /\ steps' = <<>>
  /\ pc' = "init_db"
  /\ UNCHANGED <<storeVars, events, api, classifyVars, dispatchVars>>

\* init_db()
StepInitDb ==
  /\ pc = "init_db"
  /\ LET r == init_db(table, rows) IN table' = r.table /\ rows' = r.rows
  /\ steps' = Append(steps, "init_db")
  /\ pc' = "classify"
  /\ UNCHANGED <<seq, written, calls, req, gw, loc, events, api, classifyVars, dispatchVars>>

\* classification = classify(message, trace_id=trace_id, model=model)
StepClassify ==
  /\ pc = "classify"
  /\ LET r == classify(req.val.message, req.val.trace_id, gw.val) IN
       IF r.kind = "raise"
       THEN /\ loc' = [loc EXCEPT !.exc = Just(r.exc)]
            /\ pc' = "raised"
       ELSE /\ loc' = [loc EXCEPT !.classification = Just(r)]
            /\ pc' = "dispatch"
  /\ steps' = Append(steps, "classify")
  /\ UNCHANGED <<storeVars, calls, req, gw, events, api, classifyVars, dispatchVars>>

\* The QUERY branch.
StepQuery ==
  /\ pc = "dispatch"
  /\ dispatch(loc.classification.val.label) = "query"
  /\ LET ticket_number == _extract_ticket_number(req.val.message)
         looked_up == TruthyOpt(ticket_number)
         ticket_status == IF looked_up
                          THEN get_ticket_status(table, rows, ticket_number.val).value
                          ELSE Nothing
     IN /\ loc' = [loc EXCEPT !.ticket_number = ticket_number,
                              !.ticket_status = ticket_status,
                              !.task = Just(_query_task(req.val.message, req.val.trace_id,
                                                        ticket_number, ticket_status))]
        /\ steps' = IF looked_up THEN Append(steps, "get_ticket_status") ELSE steps
  /\ pc' = "kickoff"
  /\ UNCHANGED <<storeVars, calls, req, gw, events, api, classifyVars, dispatchVars>>

\* The POSITIVE_FEEDBACK branch.
StepPositive ==
  /\ pc = "dispatch"
  /\ dispatch(loc.classification.val.label) = "positive"
  /\ loc' = [loc EXCEPT !.task = Just(_positive_feedback_task(req.val.message, req.val.trace_id))]
  /\ pc' = "kickoff"
  /\ UNCHANGED <<storeVars, steps, calls, req, gw, events, api, classifyVars, dispatchVars>>

\* The else branch: a ticket number is drawn, the ticket created.
StepNegative(d) ==
  /\ pc = "dispatch"
  /\ dispatch(loc.classification.val.label) = "negative"
  /\ LET ticket_number == _generate_ticket_number(d)
         w == create_ticket(table, rows, seq, ticket_number, req.val.message, UNRESOLVED)
     IN /\ rows' = w.rows
        /\ seq' = w.seq
        /\ written' = [written EXCEPT ![ticket_number] =
                         Just([status |-> UNRESOLVED, message |-> req.val.message])]
        /\ events' = Append(events, [ticket_number |-> ticket_number,
                                     message |-> req.val.message,
                                     existed |-> RowsOf(ticket_number) # {}])
        /\ loc' = [loc EXCEPT !.ticket_number = Just(ticket_number),
                              !.task = Just(_negative_feedback_task(req.val.message,
                                                req.val.trace_id, ticket_number))]
  /\ steps' = Append(steps, "create_ticket")
  /\ pc' = "kickoff"
  /\ UNCHANGED <<table, calls, req, gw, api, classifyVars, dispatchVars>>

\* crew.kickoff(...): the responder answers, or its call raises; str(result)
\* is returned as it is, an exception is not caught.
StepKickoff(answered) ==
  /\ pc = "kickoff"
  /\ steps' = Append(steps, "kickoff")
  /\ IF answered
     THEN /\ loc' = [loc EXCEPT !.reply = Just(<<"reply to ">> \o instructions(loc.task.val))]
          /\ pc' = "returned"
     ELSE /\ loc' = [loc EXCEPT !.exc = Just("ResponderError")]
          /\ pc' = "raised"
  /\ UNCHANGED <<storeVars, calls, req, gw, events, api, classifyVars, dispatchVars>>

\* Back in the caller, which goes on to its next message.
Return ==
  /\ pc \in {"returned", "raised"}
  /\ pc' = "idle" /\ req' = Nothing /\ gw' = Nothing /\ loc' = NoLocals
  /\ steps' = <<>>
  /\ UNCHANGED <<storeVars, calls, events, api, classifyVars, dispatchVars>>

Next ==
  \/ \E m \in HandleMessages, t \in HandleTraceIds, g \in HandleGateway : Call(m, t, g)
  \/ StepInitDb
  \/ StepClassify
  \/ StepQuery
  \/ StepPositive
  \/ \E d \in Draws : StepNegative(d)
  \/ \E answered \in BOOLEAN : StepKickoff(answered)
  \/ Return

Spec == Init /\ [][Next]_vars


(***************************************************************************)
(* Claims about handle_message, checked under Spec.                        *)
(***************************************************************************)
Label == loc.classification.val.label

Count(sq, x) == Cardinality({i \in 1..Len(sq) : sq[i] = x})

OtherRows(rs, n) == {r \in rs : r.ticket_number # n}

\* C3: handle_message writes to the ticket store if and only if the label is
\* NegativeFeedback: there it makes exactly one create, with status
\* "Unresolved" and the original message, and the instructions carry the
\* number of that ticket; on the other paths the stored tickets are unchanged.
C3_WritesOnlyOnNegative ==
  /\ (pc # "idle" /\ ~loc.task.some) => (rows = loc.rows0 /\ Count(steps, "create_ticket") = 0)
  /\ (loc.task.some /\ Label # NEGATIVE_FEEDBACK)
       => (rows = loc.rows0 /\ Count(steps, "create_ticket") = 0)
  /\ (loc.task.some /\ Label = NEGATIVE_FEEDBACK)
       => /\ Count(steps, "create_ticket") = 1
          /\ loc.ticket_number.some
          /\ \E r \in rows :
               /\ RowsOf(loc.ticket_number.val) = {r}
               /\ r.status = UNRESOLVED
               /\ r.message = req.val.message
          /\ OtherRows(rows, loc.ticket_number.val) = OtherRows(loc.rows0, loc.ticket_number.val)
          /\ Contains(loc.task.val.description,
                      <<"Ticket number: ">> \o loc.ticket_number.val \o NEWLINE)

\* C3 witness: a negative-feedback request has created its ticket beside an
\* older one, and the responder has answered.
C3_Witness ==
  /\ pc = "returned" /\ Label = NEGATIVE_FEEDBACK
  /\ loc.ticket_number = Just(T_100001)
  /\ Cardinality(rows) = 2
  /\ Cardinality(loc.rows0) = 1

\* C4: the ticket number of a negative-feedback event is fresh (a number that
\* is already in the store is not used), so every event keeps its own ticket
\* and no existing ticket is overwritten by a later event.
C4_TicketNumbersAreFresh ==
  /\ \A i \in 1..Len(events) : ~events[i].existed
  /\ \A i \in 1..Len(events) :
       \E r \in rows : /\ r.ticket_number = events[i].ticket_number
                       /\ r.message = events[i].message
                       /\ r.status = UNRESOLVED

ReportsStatus(text) == Contains(text, <<" status: ">>)

SaysNotFound(text) == Contains(text, <<" not found.">>)

AsksForNumber(text) == Contains(text, <<"No ticket number detected.">>)

\* C6: on the Query path the instructions report the ticket's status exactly
\* when the message holds a ticket number that is in the store, say "not
\* found" exactly when it holds one that is not, and ask for a number exactly
\* when it holds none, whatever status text the ticket was created with.
C6_QueryInstructions ==
  (loc.task.some /\ Label = QUERY) =>
    LET n == _extract_ticket_number(req.val.message)
        stored == n.some /\ RowsOf(n.val) # {}
        text == loc.task.val.description
    IN /\ ReportsStatus(text) <=> stored
       /\ SaysNotFound(text) <=> (n.some /\ ~stored)
       /\ AsksForNumber(text) <=> ~n.some

\* C7: on every path, a trace id given to handle_message appears verbatim in
\* the instructions sent to the responder.
C7_TraceIdInInstructions ==
  (loc.task.some /\ req.val.trace_id.some)
    => Contains(instructions(loc.task.val), req.val.trace_id.val)

AllowedOrders ==
  {<<"init_db", "classify", "get_ticket_status", "kickoff">>,
   <<"init_db", "classify", "kickoff">>,
   <<"init_db", "classify", "create_ticket", "kickoff">>}

IsPrefix(a, b) == Len(a) <= Len(b) /\ SubSeq(b, 1, Len(a)) = a

ResponderFailedOnNegative ==
  /\ pc = "raised" /\ loc.exc = Just("ResponderError")
  /\ Label = NEGATIVE_FEEDBACK

\* C10: handle_message calls init_db, classify, the store, then the responder
\* once, in this order; when the responder fails on the NegativeFeedback
\* path the caller gets the error and no reply, and the ticket just created
\* is in the store with status "Unresolved".
C10_OrderAndOrphanTicket ==
  /\ \E o \in AllowedOrders : IsPrefix(steps, o)
  /\ loc.task.some => (table /\ loc.classification.some)
  /\ pc = "returned" => (loc.reply.some /\ ~loc.exc.some /\ steps \in AllowedOrders)
  /\ ResponderFailedOnNegative =>
       /\ steps = <<"init_db", "classify", "create_ticket", "kickoff">>
       /\ ~loc.reply.some
       /\ \E r \in rows : /\ r.ticket_number = loc.ticket_number.val
                          /\ r.status = UNRESOLVED
                          /\ r.message = req.val.message

\* C10 witness: the responder failed after the ticket of this request was
\* stored.
C10_Witness ==
  /\ ResponderFailedOnNegative
  /\ loc.rows0 = {}
  /\ \E r \in rows : r.ticket_number = T_100000 /\ r.message = M_thanks

=============================================================================
